---- MODULE Spec2Model ----
(***************************************************************************)
(* Jirachi proxy (src/src/jirachi-proxy/src/main.rs): the router, the      *)
(* honeypot handler and the proxy handler with its three stages            *)
(* (Sentinel triage, escalation to the General, forwarding to upstream).   *)
(*                                                                         *)
(* Strings that the code searches or concatenates (method, URI parts) are  *)
(* sequences of one-character strings; strings that are only compared or   *)
(* copied (JSON string values, bodies) are TLA+ strings.                   *)
(***************************************************************************)
EXTENDS Integers, Sequences, FiniteSets, TLC

VARIABLES pc, req, handler, suspicious, calls, brain, upstream, resp, log,
          redirected, state, serde

vars == <<pc, req, handler, suspicious, calls, brain, upstream, resp, log,
          redirected, state, serde>>

(***************************************************************************)
(* Bounds                                                                  *)
(***************************************************************************)
\* number of handler invocations that may be in flight at once
MaxHandlers == 2
\* number of pieces a generated path is made of (specification SpecTriage)
MaxPieces == 2

Handlers == 1..MaxHandlers
Clients == {"c1", "c2"}

(***************************************************************************)
(* Option<T>                                                               *)
(***************************************************************************)
None == [some |-> FALSE]
Some(v) == [some |-> TRUE, v |-> v]

(***************************************************************************)
(* Character strings                                                       *)
(***************************************************************************)
\* str::contains: pat occurs in s as a contiguous substring (case-sensitive)
Contains(s, pat) ==
    \E i \in 0..(Len(s) - Len(pat)) : SubSeq(s, i + 1, i + Len(pat)) = pat

RECURSIVE Concat(_)
Concat(ss) == IF ss = <<>> THEN <<>> ELSE Head(ss) \o Concat(Tail(ss))

s_admin      == <<"a","d","m","i","n">>
s_UNION      == <<"U","N","I","O","N">>
s_pct27      == <<"%","2","7">>
s_siren_test == <<"s","i","r","e","n","_","t","e","s","t">>
s_trap       == <<"/","t","r","a","p">>
s_slash      == <<"/">>
s_GET        == <<"G","E","T">>
s_POST       == <<"P","O","S","T">>
s_DELETE     == <<"D","E","L","E","T","E">>
s_http       == <<"h","t","t","p">>

\* the marker substrings of the Sentinel
Markers == {s_admin, s_UNION, s_pct27, s_siren_test}

(***************************************************************************)
(* http::Uri                                                               *)
(***************************************************************************)
\* scheme and authority are present only for an absolute-form request
\* target (HTTP/1.1 "GET http://host/path", or an HTTP/2 request)
MkUri(scheme, authority, path, query) ==
    [scheme |-> scheme, authority |-> authority, path |-> path, query |-> query]

OriginForm(path, query) == MkUri(None, None, path, query)

\* Uri::path
UriPath(u) == u.path

\* Uri::query().unwrap_or("")
UriQueryOrEmpty(u) == IF u.query.some THEN u.query.v ELSE <<>>

\* <Uri as Display>::fmt: [scheme "://"] [authority] path ["?" query]
UriToString(u) ==
    (IF u.scheme.some THEN u.scheme.v \o <<":","/","/">> ELSE <<>>)
    \o (IF u.authority.some THEN u.authority.v ELSE <<>>)
    \o u.path
    \o (IF u.query.some THEN <<"?">> \o u.query.v ELSE <<>>)

(***************************************************************************)
(* 1. The Sentinel (local triage)                                          *)
(***************************************************************************)
\* uri is req.uri().to_string()
is_suspicious(uri) ==
    \/ Contains(uri, s_admin)
    \/ Contains(uri, s_UNION)
    \/ Contains(uri, s_pct27)
    \/ Contains(uri, s_siren_test)

(***************************************************************************)
(* Router: .route("/trap", any(honeypot_handler))                          *)
(*         .route("/*path", any(proxy_handler))                            *)
(* A wildcard segment matches one or more characters, so "/*path" does     *)
(* not match the root path "/"; an unmatched path gets the router's        *)
(* fallback (404, empty body).  Matching is on the path alone.             *)
(***************************************************************************)
Route_PrefixTrap(path) ==
    IF Len(path) >= Len(s_trap) /\ SubSeq(path, 1, Len(s_trap)) = s_trap
    THEN "honeypot_handler"
    ELSE IF Len(path) >= 2 /\ Head(path) = "/" THEN "proxy_handler"
    ELSE "fallback"

Route(path) ==
    IF path = s_trap THEN "honeypot_handler"
    ELSE IF Len(path) >= 2 /\ Head(path) = "/" THEN "proxy_handler"
    ELSE "fallback"

(***************************************************************************)
(* JSON values (serde_json::Value) and the artifact schemas                *)
(***************************************************************************)
JNull == [t |-> "null"]
JStr(s) == [t |-> "str", s |-> s]
JNum(n) == [t |-> "num", n |-> n]
\* an object is a function from its keys to JSON values
JObj(f) == [t |-> "obj", o |-> f]
\* a body that is not JSON text at all
NotJson == [t |-> "invalid"]
\* a body whose bytes could not be read to the end
BodyReadError == [t |-> "unreadable"]

Ok(v) == [ok |-> TRUE, v |-> v]
Err(e) == [ok |-> FALSE, err |-> e]

HasField(j, k) == k \in DOMAIN j.o

\* a field of type String: must be present and a JSON string
IsStringField(j, k) == HasField(j, k) /\ j.o[k].t = "str"

\* a field of type Option<String>: absent, null or a JSON string
IsOptStringField(j, k) == HasField(j, k) => j.o[k].t \in {"null", "str"}

OptStringField(j, k) ==
    IF HasField(j, k) /\ j.o[k].t = "str" THEN Some(j.o[k].s) ELSE None

ParseCommand_TargetMustBeString(j) ==
    IF j.t # "obj" THEN Err("invalid type")
    ELSE IF ~HasField(j, "action") THEN Err("missing field action")
    ELSE IF ~IsStringField(j, "action") THEN Err("invalid type")
    ELSE IF HasField(j, "redirect_target") /\ j.o["redirect_target"].t # "str"
         THEN Err("invalid type")
    ELSE Ok([action |-> j.o["action"].s,
             redirect_target |-> OptStringField(j, "redirect_target")])

\* #[derive(Deserialize)] struct Command { action, redirect_target }
ParseCommand(j) ==
    IF j.t # "obj" THEN Err("invalid type")
    ELSE IF ~HasField(j, "action") THEN Err("missing field action")
    ELSE IF ~IsStringField(j, "action") THEN Err("invalid type")
    ELSE IF ~IsOptStringField(j, "redirect_target") THEN Err("invalid type")
    ELSE Ok([action |-> j.o["action"].s,
             redirect_target |-> OptStringField(j, "redirect_target")])

\* #[derive(Serialize)] struct Command: both fields are written, a None
\* redirect_target as null
SerializeCommand(c) ==
    JObj([action |-> JStr(c.action),
          redirect_target |-> IF c.redirect_target.some
                              THEN JStr(c.redirect_target.v) ELSE JNull])

ParseThreatJudgment_Lenient(j) ==
    IF j.t # "obj" THEN Err("invalid type")
    ELSE IF ~HasField(j, "command") THEN Err("missing field command")
    ELSE IF ~ParseCommand(j.o["command"]).ok THEN ParseCommand(j.o["command"])
    ELSE Ok([artifact_type |-> IF IsStringField(j, "artifact_type")
                               THEN j.o["artifact_type"].s ELSE "",
             threat_level |-> IF IsStringField(j, "threat_level")
                              THEN j.o["threat_level"].s ELSE "",
             command |-> ParseCommand(j.o["command"]).v])

\* resp.json::<ThreatJudgment>(): read the whole body, then
\* #[derive(Deserialize)] struct ThreatJudgment { artifact_type,
\* threat_level, command }; no field has a default, unknown fields are
\* ignored
ParseThreatJudgment(j) ==
    IF j.t = "unreadable" THEN Err("error reading body")
    ELSE IF j.t = "invalid" THEN Err("expected value")
    ELSE IF j.t # "obj" THEN Err("invalid type")
    ELSE IF ~HasField(j, "artifact_type") THEN Err("missing field artifact_type")
    ELSE IF ~IsStringField(j, "artifact_type") THEN Err("invalid type")
    ELSE IF ~HasField(j, "threat_level") THEN Err("missing field threat_level")
    ELSE IF ~IsStringField(j, "threat_level") THEN Err("invalid type")
    ELSE IF ~HasField(j, "command") THEN Err("missing field command")
    ELSE IF ~ParseCommand(j.o["command"]).ok THEN ParseCommand(j.o["command"])
    ELSE Ok([artifact_type |-> j.o["artifact_type"].s,
             threat_level |-> j.o["threat_level"].s,
             command |-> ParseCommand(j.o["command"]).v])

(***************************************************************************)
(* App state: built once in main, shared by every handler                  *)
(***************************************************************************)
brain_url == <<"h","t","t","p",":","/","/","1","2","7",".","0",".","0",".","1",":","8","0","0","0","/","a","n","a","l","y","z","e","_","t","h","r","e","a","t">>
upstream_url == <<"h","t","t","p",":","/","/","1","2","7",".","0",".","0",".","1",":","5","0","0","0">>

AppState == [brain_url |-> brain_url, upstream_url |-> upstream_url]

(***************************************************************************)
(* Responses                                                               *)
(***************************************************************************)
s_application_json == <<"a","p","p","l","i","c","a","t","i","o","n","/","j","s","o","n">>
s_content_type     == <<"c","o","n","t","e","n","t","-","t","y","p","e">>
s_Location         == <<"L","o","c","a","t","i","o","n">>

MkResponse(status, headers, body) ==
    [status |-> status, headers |-> headers, body |-> body]

\* Response::builder().status(403).body("Jirachi Shield: ...")
BlockResponse ==
    MkResponse(403, {}, "Jirachi Shield: Request Blocked by Command.")

\* Response::builder().status(TEMPORARY_REDIRECT).header("Location", "/trap")
RedirectResponse ==
    MkResponse(307, {<<s_Location, s_trap>>}, "Redirecting for debug...")

\* (StatusCode::OK, Json(json!({...}))): the object's keys are serialized
\* in sorted order
DecoyResponse_ServerError ==
    MkResponse(500, {<<s_content_type, s_application_json>>},
        "{\"error\":\"Fatal DB Error\"}")

DecoyResponse ==
    MkResponse(200, {<<s_content_type, s_application_json>>},
        "{\"debug_trace\":\"SELECT * FROM users WHERE admin = 1 failed.\","
        \o "\"error\":\"Fatal DB Error\","
        \o "\"suggestion\":\"Please contact sysadmin.\"}")

\* the router's answer to a path that matches no route
FallbackResponse == MkResponse(404, {}, "")

\* StatusCode::from_u16
FromU16(n) == IF n >= 100 /\ n <= 999 THEN Some(n) ELSE None

UnwrapOr(opt, default) == IF opt.some THEN opt.v ELSE default

RelayResponse_DropStatus(up) ==
    IF up.ok
    THEN MkResponse(200, {}, UnwrapOr(up.v.bytes, ""))
    ELSE MkResponse(502, {}, "Upstream Error: " \o up.err)

RelayResponse_ErrorIs500(up) ==
    IF up.ok
    THEN MkResponse(UnwrapOr(FromU16(up.v.status), 500), {},
                    UnwrapOr(up.v.bytes, ""))
    ELSE MkResponse(500, {}, "Upstream Error")

\* the Ok and Err arms of the upstream match
RelayResponse(up) ==
    IF up.ok
    THEN MkResponse(UnwrapOr(FromU16(up.v.status), 500), {},
                    UnwrapOr(up.v.bytes, ""))
    ELSE MkResponse(502, {}, "Upstream Error: " \o up.err)

(***************************************************************************)
(* 2. The General (escalation) and the disposition                         *)
(***************************************************************************)
\* format!("{} {}", method, uri) and the json! payload
Trace(method, uri) == method \o <<" ">> \o uri

Payload(method, uri) == [trace |-> Trace(method, uri), slm_score |-> "0.9"]

PostCall(r) ==
    [method |-> s_POST, url |-> state.brain_url,
     json |-> Some(Payload(r.method, UriToString(r.uri)))]

Decide_BlockOnlyHigh(judgment) ==
    IF judgment.command.action = "BLOCK" /\ judgment.threat_level = "HIGH"
    THEN "Block"
    ELSE IF judgment.command.action = "DECEIVE" THEN "Redirect"
    ELSE "Forward"

Decide_DeceiveNeedsTarget(judgment) ==
    IF judgment.command.action = "BLOCK" THEN "Block"
    ELSE IF judgment.command.action = "DECEIVE"
            /\ judgment.command.redirect_target.some THEN "Redirect"
    ELSE "Forward"

Decide_AnyCase(judgment) ==
    IF judgment.command.action \in {"BLOCK", "block"} THEN "Block"
    ELSE IF judgment.command.action \in {"DECEIVE", "deceive"} THEN "Redirect"
    ELSE "Forward"

\* the two tests on judgment.command.action
Decide(judgment) ==
    IF judgment.command.action = "BLOCK" THEN "Block"
    ELSE IF judgment.command.action = "DECEIVE" THEN "Redirect"
    ELSE "Forward"

EscalationDisposition_FailClosed(reply) ==
    IF reply.ok
    THEN IF ParseThreatJudgment(reply.v.body).ok
         THEN Decide(ParseThreatJudgment(reply.v.body).v)
         ELSE "Forward"
    ELSE "Block"

EscalationDisposition_BlockOnParseError(reply) ==
    IF reply.ok
    THEN IF ParseThreatJudgment(reply.v.body).ok
         THEN Decide(ParseThreatJudgment(reply.v.body).v)
         ELSE "Block"
    ELSE "Forward"

\* match ...send().await { Ok(resp) => if let Ok(judgment) = ... , Err(e) => ... }
EscalationDisposition(reply) ==
    IF reply.ok
    THEN IF ParseThreatJudgment(reply.v.body).ok
         THEN Decide(ParseThreatJudgment(reply.v.body).v)
         ELSE "Forward"
    ELSE "Forward"

(***************************************************************************)
(* 3. Forward to consumer (upstream)                                       *)
(***************************************************************************)
\* format!("{}{}{}", upstream_url, path, if query.is_empty() {""} else {"?"+query})
TargetUrl(u) ==
    state.upstream_url \o UriPath(u)
    \o (IF UriQueryOrEmpty(u) = <<>> THEN <<>> ELSE <<"?">> \o UriQueryOrEmpty(u))

GetCall_PropagateMethod(r) ==
    [method |-> r.method, url |-> TargetUrl(r.uri),
     json |-> IF r.body = "" THEN None ELSE Some(r.body)]

GetCall(r) == [method |-> s_GET, url |-> TargetUrl(r.uri), json |-> None]

NextStage_AlwaysEscalate(susp) == "await_brain"

NextStage_ForwardFirst(susp) == "await_upstream"

\* if is_suspicious { escalate } else fall through to forwarding
NextStage(susp) == IF susp THEN "await_brain" ELSE "await_upstream"

(***************************************************************************)
(* Inputs: inbound requests, replies of the judgment service and of the    *)
(* upstream service                                                        *)
(***************************************************************************)
MkRequest(client, method, uri, headers, body) ==
    [client |-> client, method |-> method, uri |-> uri,
     headers |-> headers, body |-> body]

Uris ==
    { OriginForm(<<"/","p","r","o","d","u","c","t","s">>, Some(<<"i","d","=","1">>)),
      OriginForm(<<"/","a","d","m","i","n","/","l","o","g","i","n">>, None),
      OriginForm(<<"/","a","d","m","i","n">>, None),
      OriginForm(<<"/">>, Some(<<"q","=","%","2","7">>)),
      OriginForm(<<"/">>, None),
      OriginForm(<<"/","t","r","a","p">>, None),
      OriginForm(<<"/","t","r","a","p">>, Some(<<"x","=","a","d","m","i","n">>)),
      OriginForm(<<"/","t","r","a","p","/">>, None),
      OriginForm(<<"/","s","e","a","r","c","h">>, Some(<<"q","=","U","N","I","O","N">>)),
      OriginForm(<<"/","s","i","r","e","n","_","t","e","s","t">>, None),
      OriginForm(<<"/","A","d","m","i","n">>, Some(<<"q","=","u","n","i","o","n">>)),
      OriginForm(<<"/","i","n","d","e","x">>, Some(<<>>)),
      MkUri(Some(s_http), Some(<<"a","d","m","i","n",".","e","x","a","m","p","l","e">>), <<"/","i","n","d","e","x">>, None) }

s_user_agent == <<"u","s","e","r","-","a","g","e","n","t">>

HeaderSets == { {}, {<<s_user_agent, <<"s","q","l","m","a","p">>>>} }

\* method and body of the inbound request
MethodBodies == { <<s_GET, "">>, <<s_POST, "x=1">>, <<s_DELETE, "">> }

Requests ==
    { MkRequest(c, mb[1], u, hs, mb[2]) :
        c \in Clients, mb \in MethodBodies, u \in Uris, hs \in HeaderSets }

CommandObj(action, rt) ==
    IF rt = "absent" THEN JObj([action |-> JStr(action)])
    ELSE IF rt = "null" THEN JObj([action |-> JStr(action), redirect_target |-> JNull])
    ELSE JObj([action |-> JStr(action), redirect_target |-> JStr(rt)])

VerdictBody(at, tl, action, rt) ==
    JObj([artifact_type |-> JStr(at), threat_level |-> JStr(tl),
          command |-> CommandObj(action, rt)])

Actions == {"BLOCK", "DECEIVE", "ALLOW", "", "block", "deceive", "MONITOR"}

\* bodies that parse into a ThreatJudgment
VerdictBodies ==
    { VerdictBody(x[1], x[2], a, rt) :
        x \in { <<"threat_judgment", "HIGH">>, <<"", "LOW">> },
        a \in Actions, rt \in {"absent", "null", "/elsewhere"} }
    \cup { JObj([artifact_type |-> JStr("threat_judgment"),
                 threat_level |-> JStr("HIGH"),
                 command |-> CommandObj("BLOCK", "null"),
                 note |-> JStr("unknown field")]) }

\* bodies that do not
MalformedBodies ==
    { NotJson, BodyReadError, JNull, JStr("BLOCK"),
      JObj([k \in {} |-> JNull]),
      JObj([command |-> CommandObj("BLOCK", "absent")]),
      JObj([command |-> CommandObj("DECEIVE", "absent")]),
      JObj([artifact_type |-> JStr("threat_judgment"),
            command |-> CommandObj("BLOCK", "absent")]),
      JObj([threat_level |-> JStr("HIGH"),
            command |-> CommandObj("DECEIVE", "null")]),
      JObj([artifact_type |-> JStr("threat_judgment"), threat_level |-> JNull,
            command |-> CommandObj("BLOCK", "absent")]),
      JObj([artifact_type |-> JStr("threat_judgment"), threat_level |-> JStr("HIGH")]),
      JObj([artifact_type |-> JStr("threat_judgment"), threat_level |-> JStr("HIGH"),
            command |-> JNull]),
      JObj([artifact_type |-> JStr("threat_judgment"), threat_level |-> JStr("HIGH"),
            command |-> JObj([redirect_target |-> JStr("/elsewhere")])]),
      JObj([artifact_type |-> JStr("threat_judgment"), threat_level |-> JStr("HIGH"),
            command |-> JObj([action |-> JNum(1)])]),
      JObj([artifact_type |-> JStr("threat_judgment"), threat_level |-> JStr("HIGH"),
            command |-> JObj([action |-> JStr("BLOCK"), redirect_target |-> JNum(1)])]) }

\* what send().await of the escalation POST yields
BrainReplies ==
    { Err("error sending request") }
    \cup { Ok([status |-> 200, body |-> b]) : b \in VerdictBodies \cup MalformedBodies }
    \cup { Ok([status |-> 500, body |-> b]) :
             b \in { VerdictBody("threat_judgment", "HIGH", "BLOCK", "absent"), NotJson } }

\* what send().await of the upstream GET yields; bytes is None when the
\* body could not be read
UpstreamReplies ==
    { Err("error sending request") }
    \cup { Ok([status |-> st, bytes |-> b]) :
             st \in {200, 307, 403, 500},
             b \in { Some("OK"), Some(BlockResponse.body), None } }

(***************************************************************************)
(* State.  Per handler invocation h:                                       *)
(*   pc[h]         "idle", "await_brain", "await_upstream" or "done"       *)
(*   req[h]        the inbound request                                     *)
(*   handler[h]    the handler the router chose                            *)
(*   suspicious[h] the local is_suspicious                                 *)
(*   calls[h]      the outbound calls issued so far, in order              *)
(*   brain[h]      the result of the escalation POST, once it is back      *)
(*   upstream[h]   the result of the upstream GET, once it is back         *)
(*   resp[h]       the response returned to the client                     *)
(*   log[h]        the tracing records emitted so far, in order            *)
(* state is the Arc<AppState> every handler receives.                      *)
(* serde holds a Command on its way through serialization and parsing.     *)
(* redirected is the set of clients that have been sent the handler's 307  *)
(* to /trap.                                                               *)
(***************************************************************************)
Init ==
    /\ pc = [h \in Handlers |-> "idle"]
    /\ req = [h \in Handlers |-> None]
    /\ handler = [h \in Handlers |-> "none"]
    /\ suspicious = [h \in Handlers |-> FALSE]
    /\ calls = [h \in Handlers |-> <<>>]
    /\ brain = [h \in Handlers |-> None]
    /\ upstream = [h \in Handlers |-> None]
    /\ resp = [h \in Handlers |-> None]
    /\ log = [h \in Handlers |-> <<>>]
    /\ redirected = {}
    /\ state = AppState
    /\ serde = [stage |-> "idle"]

LogRecord(level, msg, arg) == [level |-> level, msg |-> msg, arg |-> arg]

\* honeypot_handler: two warn! records, then the fixed decoy
HoneypotHandler(h, R) ==
    /\ pc[h] = "idle"
    /\ \E r \in R :
        /\ Route(UriPath(r.uri)) = "honeypot_handler"
        /\ req' = [req EXCEPT ![h] = Some(r)]
        /\ handler' = [handler EXCEPT ![h] = "honeypot_handler"]
        /\ log' = [log EXCEPT ![h] =
                     << LogRecord("warn", "!! [SIREN] ALERT: Attacker trapped in Honeypot!", {}),
                        LogRecord("warn", "!! [SIREN] Headers: ", r.headers) >>]
        /\ resp' = [resp EXCEPT ![h] = Some(DecoyResponse)]
        /\ pc' = [pc EXCEPT ![h] = "done"]
        /\ UNCHANGED <<suspicious, calls, brain, upstream, redirected, state, serde>>

\* no route matches the path: the router answers by itself
RouterFallback(h, R) ==
    /\ pc[h] = "idle"
    /\ \E r \in R :
        /\ Route(UriPath(r.uri)) = "fallback"
        /\ req' = [req EXCEPT ![h] = Some(r)]
        /\ handler' = [handler EXCEPT ![h] = "fallback"]
        /\ resp' = [resp EXCEPT ![h] = Some(FallbackResponse)]
        /\ pc' = [pc EXCEPT ![h] = "done"]
        /\ UNCHANGED <<suspicious, calls, brain, upstream, log, redirected, state, serde>>

\* proxy_handler up to its first await: triage, then either the escalation
\* POST or, for a request that is not suspicious, the upstream GET
ProxyTriage(h, R) ==
    /\ pc[h] = "idle"
    /\ \E r \in R :
        /\ Route(UriPath(r.uri)) = "proxy_handler"
        /\ req' = [req EXCEPT ![h] = Some(r)]
        /\ handler' = [handler EXCEPT ![h] = "proxy_handler"]
        /\ suspicious' = [suspicious EXCEPT ![h] = is_suspicious(UriToString(r.uri))]
        /\ IF NextStage(is_suspicious(UriToString(r.uri))) = "await_brain"
           THEN /\ log' = [log EXCEPT ![h] =
                             << LogRecord("info", "Sentinel: Detected suspicious pattern: ",
                                          UriToString(r.uri)) >>]
                /\ calls' = [calls EXCEPT ![h] = << PostCall(r) >>]
                /\ pc' = [pc EXCEPT ![h] = "await_brain"]
           ELSE /\ log' = log
                /\ calls' = [calls EXCEPT ![h] = << GetCall(r) >>]
                /\ pc' = [pc EXCEPT ![h] = "await_upstream"]
        /\ UNCHANGED <<brain, upstream, resp, redirected, state, serde>>

\* the records emitted while the escalation result is handled
JudgmentLog(reply) ==
    IF ~reply.ok
    THEN << LogRecord("error", "Failed to reach General: ", reply.err) >>
    ELSE IF ~ParseThreatJudgment(reply.v.body).ok THEN <<>>
    ELSE << LogRecord("info", "General's Judgment: ",
                      ParseThreatJudgment(reply.v.body).v) >>
         \o (IF EscalationDisposition(reply) = "Redirect"
             THEN << LogRecord("info", "<< COMMAND: DECEIVE. Rerouting to Siren.", {}) >>
             ELSE <<>>)

BrainReply_RetryOnce(h, B) ==
    /\ pc[h] = "await_brain"
    /\ \E reply \in B :
        IF ~reply.ok /\ Len(calls[h]) < 2
        THEN /\ calls' = [calls EXCEPT ![h] = @ \o << PostCall(req[h].v) >>]
             /\ log' = [log EXCEPT ![h] = @ \o JudgmentLog(reply)]
             /\ UNCHANGED <<pc, req, handler, suspicious, brain, upstream, resp,
                            redirected, state, serde>>
        ELSE /\ brain' = [brain EXCEPT ![h] = Some(reply)]
             /\ log' = [log EXCEPT ![h] = @ \o JudgmentLog(reply)]
             /\ CASE EscalationDisposition(reply) = "Block" ->
                       /\ resp' = [resp EXCEPT ![h] = Some(BlockResponse)]
                       /\ pc' = [pc EXCEPT ![h] = "done"]
                       /\ calls' = calls
                  [] EscalationDisposition(reply) = "Redirect" ->
                       /\ resp' = [resp EXCEPT ![h] = Some(RedirectResponse)]
                       /\ pc' = [pc EXCEPT ![h] = "done"]
                       /\ calls' = calls
                  [] OTHER ->
                       /\ resp' = resp
                       /\ pc' = [pc EXCEPT ![h] = "await_upstream"]
                       /\ calls' = [calls EXCEPT ![h] = @ \o << GetCall(req[h].v) >>]
             /\ UNCHANGED <<req, handler, suspicious, upstream, redirected, state, serde>>

\* the escalation POST completes with reply: block, redirect, or fall
\* through to the upstream GET
BrainReply(h, B) ==
    /\ pc[h] = "await_brain"
    /\ \E reply \in B :
        /\ brain' = [brain EXCEPT ![h] = Some(reply)]
        /\ log' = [log EXCEPT ![h] = @ \o JudgmentLog(reply)]
        /\ CASE EscalationDisposition(reply) = "Block" ->
                  /\ resp' = [resp EXCEPT ![h] = Some(BlockResponse)]
                  /\ pc' = [pc EXCEPT ![h] = "done"]
                  /\ calls' = calls
             [] EscalationDisposition(reply) = "Redirect" ->
                  /\ resp' = [resp EXCEPT ![h] = Some(RedirectResponse)]
                  /\ pc' = [pc EXCEPT ![h] = "done"]
                  /\ calls' = calls
             [] OTHER ->
                  /\ resp' = resp
                  /\ pc' = [pc EXCEPT ![h] = "await_upstream"]
                  /\ calls' = [calls EXCEPT ![h] = @ \o << GetCall(req[h].v) >>]
        /\ UNCHANGED <<req, handler, suspicious, upstream, redirected, state, serde>>

UpstreamReply_SharedSlot(h, U) ==
    /\ pc[h] = "await_upstream"
    /\ \E up \in U :
        /\ upstream' = [upstream EXCEPT ![h] = Some(up)]
        /\ resp' = [g \in Handlers |->
                      IF g = h \/ pc[g] = "done"
                      THEN Some(RelayResponse(up)) ELSE resp[g]]
        /\ pc' = [pc EXCEPT ![h] = "done"]
        /\ UNCHANGED <<req, handler, suspicious, calls, brain, log, redirected, state, serde>>

\* the upstream GET completes with up: relay it, or answer 502
UpstreamReply(h, U) ==
    /\ pc[h] = "await_upstream"
    /\ \E up \in U :
        /\ upstream' = [upstream EXCEPT ![h] = Some(up)]
        /\ resp' = [resp EXCEPT ![h] = Some(RelayResponse(up))]
        /\ pc' = [pc EXCEPT ![h] = "done"]
        /\ UNCHANGED <<req, handler, suspicious, calls, brain, log, redirected, state, serde>>

\* the response a handler returned is the proxy's redirect to the trap
IsTrapRedirect(rsp) ==
    rsp.status = 307 /\ <<s_Location, s_trap>> \in rsp.headers

\* the response is written to the client and the invocation ends
Complete(h) ==
    /\ pc[h] = "done"
    /\ redirected' = IF IsTrapRedirect(resp[h].v)
                     THEN redirected \cup {req[h].v.client}
                     ELSE redirected
    /\ pc' = [pc EXCEPT ![h] = "idle"]
    /\ req' = [req EXCEPT ![h] = None]
    /\ handler' = [handler EXCEPT ![h] = "none"]
    /\ suspicious' = [suspicious EXCEPT ![h] = FALSE]
    /\ calls' = [calls EXCEPT ![h] = <<>>]
    /\ brain' = [brain EXCEPT ![h] = None]
    /\ upstream' = [upstream EXCEPT ![h] = None]
    /\ resp' = [resp EXCEPT ![h] = None]
    /\ log' = [log EXCEPT ![h] = <<>>]
    /\ UNCHANGED <<state, serde>>

\* Requests are served one at a time by the first handler invocation; the
\* inputs range over Requests, BrainReplies and UpstreamReplies.
Next ==
    \/ HoneypotHandler(1, Requests)
    \/ RouterFallback(1, Requests)
    \/ ProxyTriage(1, Requests)
    \/ BrainReply(1, BrainReplies)
    \/ UpstreamReply(1, UpstreamReplies)
    \/ Complete(1)

Spec == Init /\ [][Next]_vars

(***************************************************************************)
(* SpecTriage: the same handlers, with the request target drawn from       *)
(* generated URIs (paths and queries assembled from fragments of the       *)
(* markers, with and without an authority) and few replies.                *)
(***************************************************************************)
Pieces ==
    { <<"a","d">>, <<"m","i","n">>, <<"U","N","I">>, <<"O","N">>, <<"%","2">>, <<"7">>, <<"s","i","r","e","n","_">>, <<"t","e","s","t">> }

PieceSeqs(n) == UNION { [1..k -> Pieces] : k \in 0..n }

TriagePaths == { s_slash \o Concat(ps) : ps \in PieceSeqs(MaxPieces) } \cup { s_trap }

TriageQueries == { None, Some(<<>>) } \cup { Some(p) : p \in Pieces }

\* <<scheme, authority>> of the request target
TriageOrigins ==
    { <<None, None>>,
      <<Some(s_http), Some(<<"a","d","m","i","n",".","e","x","a","m","p","l","e">>)>>,
      <<Some(s_http), Some(<<"e","x","a","m","p","l","e",".","o","r","g">>)>> }

TriageUris ==
    { MkUri(o[1], o[2], p, q) :
        o \in TriageOrigins, p \in TriagePaths, q \in TriageQueries }

TriageRequests == { MkRequest("c1", s_GET, u, {}, "") : u \in TriageUris }

TriageBrainReplies ==
    { Err("error sending request"),
      Ok([status |-> 200, body |-> NotJson]),
      Ok([status |-> 200,
          body |-> VerdictBody("threat_judgment", "HIGH", "BLOCK", "absent")]) }

TriageUpstreamReplies ==
    { Err("error sending request"),
      Ok([status |-> 200, bytes |-> Some("OK")]) }

NextTriage ==
    \/ HoneypotHandler(1, TriageRequests)
    \/ RouterFallback(1, TriageRequests)
    \/ ProxyTriage(1, TriageRequests)
    \/ BrainReply(1, TriageBrainReplies)
    \/ UpstreamReply(1, TriageUpstreamReplies)
    \/ Complete(1)

SpecTriage == Init /\ [][NextTriage]_vars

(***************************************************************************)
(* SpecConc: every handler invocation may be in flight at once, in any     *)
(* interleaving (one invocation per inbound request, run concurrently),    *)
(* with few requests and replies.                                          *)
(***************************************************************************)
ConcUris ==
    { OriginForm(<<"/","p","r","o","d","u","c","t","s">>, Some(<<"i","d","=","1">>)),
      OriginForm(<<"/","a","d","m","i","n">>, None),
      OriginForm(<<"/">>, None),
      OriginForm(<<"/","t","r","a","p">>, None),
      OriginForm(<<"/","t","r","a","p","/">>, None) }

ConcRequests == { MkRequest(c, s_GET, u, {}, "") : c \in Clients, u \in ConcUris }

ConcBrainReplies ==
    { Err("error sending request"),
      Ok([status |-> 200, body |-> NotJson]),
      Ok([status |-> 200,
          body |-> VerdictBody("threat_judgment", "HIGH", "BLOCK", "absent")]),
      Ok([status |-> 200,
          body |-> VerdictBody("threat_judgment", "HIGH", "DECEIVE", "null")]) }

ConcUpstreamReplies ==
    { Err("error sending request"),
      Ok([status |-> 200, bytes |-> Some("OK")]) }

NextConc ==
    \E h \in Handlers :
        \/ HoneypotHandler(h, ConcRequests)
        \/ RouterFallback(h, ConcRequests)
        \/ ProxyTriage(h, ConcRequests)
        \/ BrainReply(h, ConcBrainReplies)
        \/ UpstreamReply(h, ConcUpstreamReplies)
        \/ Complete(h)

SpecConc == Init /\ [][NextConc]_vars

(***************************************************************************)
(* SpecLive: the handlers with the outbound peers allowed to stay silent.  *)
(* Client::new() configures no timeout, so a send().await whose peer has   *)
(* accepted the connection and never answers has no step that ends it.     *)
(* Every step the runtime or an answering peer takes is weakly fair.       *)
(***************************************************************************)
\* the judgment service accepts the POST and never answers it
BrainNeverAnswers(h) ==
    /\ pc[h] = "await_brain"
    /\ pc' = [pc EXCEPT ![h] = "pending_brain"]
    /\ UNCHANGED <<req, handler, suspicious, calls, brain, upstream, resp, log,
                   redirected, state, serde>>

\* the upstream service accepts the GET and never answers it
UpstreamNeverAnswers(h) ==
    /\ pc[h] = "await_upstream"
    /\ pc' = [pc EXCEPT ![h] = "pending_upstream"]
    /\ UNCHANGED <<req, handler, suspicious, calls, brain, upstream, resp, log,
                   redirected, state, serde>>

LiveRequests ==
    { MkRequest(c, m, u, {}, "") : c \in Clients, m \in {s_GET, s_POST}, u \in ConcUris }

NextLive ==
    \/ HoneypotHandler(1, LiveRequests)
    \/ RouterFallback(1, LiveRequests)
    \/ ProxyTriage(1, LiveRequests)
    \/ BrainReply(1, ConcBrainReplies)
    \/ BrainNeverAnswers(1)
    \/ UpstreamReply(1, ConcUpstreamReplies)
    \/ UpstreamNeverAnswers(1)
    \/ Complete(1)

SpecLive ==
    /\ Init
    /\ [][NextLive]_vars
    /\ WF_vars(HoneypotHandler(1, LiveRequests))
    /\ WF_vars(RouterFallback(1, LiveRequests))
    /\ WF_vars(ProxyTriage(1, LiveRequests))
    /\ WF_vars(BrainReply(1, ConcBrainReplies))
    /\ WF_vars(UpstreamReply(1, ConcUpstreamReplies))
    /\ WF_vars(Complete(1))

(***************************************************************************)
(* SpecSerde: the Command schema on its own. A Command value is written    *)
(* with its derived Serialize and read back with its derived Deserialize;  *)
(* JSON received from outside is read with the same Deserialize.           *)
(***************************************************************************)
Commands ==
    { [action |-> a, redirect_target |-> rt] :
        a \in Actions, rt \in { None, Some("/trap"), Some("/elsewhere"), Some("") } }

CommandJsons ==
    { CommandObj(a, rt) : a \in Actions, rt \in {"absent", "null", "/trap", "/elsewhere"} }
    \cup { JNull, JStr("BLOCK"),
           JObj([k \in {} |-> JNull]),
           JObj([redirect_target |-> JStr("/trap")]),
           JObj([action |-> JNull]),
           JObj([action |-> JNum(1), redirect_target |-> JNull]),
           JObj([action |-> JStr("DECEIVE"), redirect_target |-> JNum(1)]),
           JObj([action |-> JStr("BLOCK"), note |-> JStr("unknown field")]) }

OtherVars == <<pc, req, handler, suspicious, calls, brain, upstream, resp, log,
               redirected, state>>

\* a Command value exists in the program
SerdeBuild ==
    /\ serde.stage = "idle"
    /\ \E c \in Commands : serde' = [stage |-> "built", cmd |-> c]
    /\ UNCHANGED OtherVars

\* serde_json::to_value / to_string of that Command
SerdeSerialize ==
    /\ serde.stage = "built"
    /\ serde' = [stage |-> "serialized", cmd |-> serde.cmd,
                 json |-> SerializeCommand(serde.cmd)]
    /\ UNCHANGED OtherVars

\* JSON for a Command arrives from outside
SerdeReceive ==
    /\ serde.stage = "idle"
    /\ \E j \in CommandJsons : serde' = [stage |-> "received", json |-> j]
    /\ UNCHANGED OtherVars

\* serde_json::from_value / from_str::<Command>
SerdeParse ==
    /\ serde.stage \in {"serialized", "received"}
    /\ serde' = [stage |-> "parsed", from |-> serde.stage, json |-> serde.json,
                 cmd |-> IF serde.stage = "serialized" THEN Some(serde.cmd) ELSE None,
                 result |-> ParseCommand(serde.json)]
    /\ UNCHANGED OtherVars

\* the values are dropped
SerdeDrop ==
    /\ serde.stage = "parsed"
    /\ serde' = [stage |-> "idle"]
    /\ UNCHANGED OtherVars

NextSerde ==
    \/ SerdeBuild
    \/ SerdeSerialize
    \/ SerdeReceive
    \/ SerdeParse
    \/ SerdeDrop

SpecSerde == Init /\ [][NextSerde]_vars

(***************************************************************************)
(* Properties                                                              *)
(***************************************************************************)
\* b has the shape expected of the judgment service's reply:
\* {"artifact_type": string, "threat_level": string,
\*  "command": {"action": string, "redirect_target": string|null}},
\* redirect_target possibly absent
WellFormedVerdict(b) ==
    /\ b.t = "obj"
    /\ {"artifact_type", "threat_level", "command"} \subseteq DOMAIN b.o
    /\ b.o["artifact_type"].t = "str"
    /\ b.o["threat_level"].t = "str"
    /\ b.o["command"].t = "obj"
    /\ "action" \in DOMAIN b.o["command"].o
    /\ b.o["command"].o["action"].t = "str"
    /\ "redirect_target" \in DOMAIN b.o["command"].o
         => b.o["command"].o["redirect_target"].t \in {"null", "str"}

\* the escalation of invocation h came back with a well-formed verdict
VerdictReceived(h) ==
    brain[h].some /\ brain[h].v.ok /\ WellFormedVerdict(brain[h].v.v.body)

\* its fields, as sent by the judgment service
VerdictAction(h) == brain[h].v.v.body.o["command"].o["action"].s
VerdictCommand(h) == brain[h].v.v.body.o["command"].o

\* invocation h went on to the Forwarder: after the escalation its next
\* and last call is the upstream GET for the request's own path and query,
\* and what it returns is the relay of that call's result
WentToForwarder(h) ==
    /\ pc[h] \in {"await_upstream", "done"}
    /\ calls[h] = << PostCall(req[h].v), GetCall(req[h].v) >>
    /\ pc[h] = "done" =>
         /\ upstream[h].some
         /\ resp[h].v = RelayResponse(upstream[h].v)

\* C1: a suspicious request whose escalation fails with a transport error
\* is not answered with an error: the handler goes on to the Forwarder and
\* returns the Forwarder's response for the same path and query.
C1_FailOpenOnTransportError ==
    \A h \in Handlers :
        (suspicious[h] /\ brain[h].some /\ ~brain[h].v.ok) => WentToForwarder(h)

C1_Witness ==
    \E h \in Handlers :
        /\ pc[h] = "done" /\ suspicious[h]
        /\ brain[h].some /\ ~brain[h].v.ok
        /\ UriPath(req[h].v.uri) = s_slash \o s_admin
        /\ upstream[h].v.ok /\ resp[h].v.status = 200 /\ resp[h].v.body = "OK"

\* C2: a suspicious request whose escalation yields a Verdict with
\* command.action = "BLOCK" is answered 403 with the fixed body, whatever
\* threat_level, artifact_type and redirect_target are, and nothing is
\* sent to upstream.
C2_BlockAlways403 ==
    \A h \in Handlers :
        (suspicious[h] /\ VerdictReceived(h) /\ VerdictAction(h) = "BLOCK")
        => /\ pc[h] = "done"
           /\ resp[h].v.status = 403
           /\ resp[h].v.body = "Jirachi Shield: Request Blocked by Command."
           /\ ~upstream[h].some

C2_Witness ==
    \E h \in Handlers :
        /\ pc[h] = "done" /\ suspicious[h] /\ VerdictReceived(h)
        /\ VerdictAction(h) = "BLOCK"
        /\ brain[h].v.v.body.o["threat_level"].s = "LOW"
        /\ brain[h].v.v.body.o["artifact_type"].s = ""
        /\ "redirect_target" \in DOMAIN VerdictCommand(h)
        /\ VerdictCommand(h)["redirect_target"] = JStr("/elsewhere")
        /\ resp[h].v.status = 403

\* C3: a suspicious request whose escalation yields a Verdict with
\* command.action = "DECEIVE" is answered 307 with Location: /trap, the
\* fixed route, whether redirect_target is absent, null or a string.
C3_DeceiveAlways307ToTrap ==
    \A h \in Handlers :
        (suspicious[h] /\ VerdictReceived(h) /\ VerdictAction(h) = "DECEIVE")
        => /\ pc[h] = "done"
           /\ resp[h].v.status = 307
           /\ resp[h].v.headers = { <<s_Location, s_trap>> }
           /\ ~upstream[h].some

C3_Witness ==
    \E h \in Handlers :
        /\ pc[h] = "done" /\ suspicious[h] /\ VerdictReceived(h)
        /\ VerdictAction(h) = "DECEIVE"
        /\ "redirect_target" \in DOMAIN VerdictCommand(h)
        /\ VerdictCommand(h)["redirect_target"] = JStr("/elsewhere")
        /\ resp[h].v.status = 307

\* C4: a suspicious request whose escalation yields a Verdict whose action
\* is "ALLOW" or any string other than exactly "BLOCK" or "DECEIVE" is
\* neither blocked nor redirected: the handler goes on to the Forwarder
\* and the client receives the Forwarder's result.
C4_OtherActionForwards ==
    \A h \in Handlers :
        (suspicious[h] /\ VerdictReceived(h)
         /\ VerdictAction(h) \notin {"BLOCK", "DECEIVE"})
        => WentToForwarder(h)

C4_Witness ==
    \E h \in Handlers :
        /\ pc[h] = "done" /\ suspicious[h] /\ VerdictReceived(h)
        /\ VerdictAction(h) = "block"
        /\ upstream[h].v.ok /\ resp[h].v.status = 200 /\ resp[h].v.body = "OK"

\* C5: when the judgment service answers but its body does not parse into
\* a Verdict, the outcome is that of a transport error: the handler goes
\* on to the Forwarder and the client receives the Forwarder's result.
C5_FailOpenOnParseError ==
    \A h \in Handlers :
        (suspicious[h] /\ brain[h].some /\ brain[h].v.ok /\ ~VerdictReceived(h))
        => WentToForwarder(h)

C5_Witness ==
    \E h \in Handlers :
        /\ pc[h] = "done" /\ suspicious[h]
        /\ brain[h].some /\ brain[h].v.ok /\ brain[h].v.v.body = NotJson
        /\ upstream[h].v.ok /\ resp[h].v.status = 200 /\ resp[h].v.body = "OK"

\* some marker occurs in the path or in the query of u
MarkerInPathOrQuery(u) ==
    \E m \in Markers : Contains(UriPath(u), m) \/ Contains(UriQueryOrEmpty(u), m)

\* C6: the Sentinel predicate computed by proxy_handler is true exactly
\* for the requests whose path or query contains one of the markers; no
\* other part of the request can make it true.
C6_SentinelIffMarkerInPathOrQuery ==
    \A h \in Handlers :
        handler[h] = "proxy_handler"
        => (suspicious[h] <=> MarkerInPathOrQuery(req[h].v.uri))

\* C7: for a suspicious request, the judgment body
\* {"command":{"action":"BLOCK"}} alone gets the client 403 with the fixed
\* block message.
C7_BareBlockCommandBlocks ==
    \A h \in Handlers :
        (/\ pc[h] = "done" /\ suspicious[h]
         /\ brain[h].some /\ brain[h].v.ok
         /\ brain[h].v.v.body = JObj([command |-> CommandObj("BLOCK", "absent")]))
        => /\ resp[h].v.status = 403
           /\ resp[h].v.body = "Jirachi Shield: Request Blocked by Command."

\* C8: the router sends every request whose path is not /trap, the root
\* path included, to proxy_handler (so that a suspicious one judged DECEIVE
\* gets the 307 to /trap), and a request for /trap gets 200 with the fake
\* error body.
C8_EveryOtherPathIsProxied ==
    \A h \in Handlers :
        pc[h] # "idle" =>
            /\ UriPath(req[h].v.uri) # s_trap => handler[h] = "proxy_handler"
            /\ (handler[h] = "proxy_handler" /\ VerdictReceived(h)
                /\ VerdictAction(h) = "DECEIVE") => IsTrapRedirect(resp[h].v)
            /\ UriPath(req[h].v.uri) = s_trap =>
                 resp[h].v.status = 200 /\ resp[h].v.body = DecoyResponse.body

\* C9 (as stated): the decoy response is produced for a client only after
\* that client has been sent the 307 to /trap for an earlier request.
C9_DecoyOnlyAfterRedirect ==
    \A h \in Handlers :
        handler[h] = "honeypot_handler" => req[h].v.client \in redirected

\* C9 (amended): the decoy response is produced by honeypot_handler alone,
\* exactly for the requests whose path is /trap, each handled as an
\* independent request that is never triaged, escalated or forwarded,
\* whether or not a redirect preceded it.
C9_DecoyOnlyForTrapPath ==
    \A h \in Handlers :
        pc[h] # "idle" =>
            /\ handler[h] = "honeypot_handler" <=> UriPath(req[h].v.uri) = s_trap
            /\ handler[h] = "honeypot_handler" =>
                 /\ pc[h] = "done" /\ resp[h].v = DecoyResponse
                 /\ calls[h] = <<>> /\ ~brain[h].some /\ ~upstream[h].some

C9_Witness ==
    \E h \in Handlers :
        /\ pc[h] = "done" /\ handler[h] = "honeypot_handler"
        /\ req[h].v.client \notin redirected
        /\ redirected # {}
        /\ resp[h].v.status = 200

\* C10: a request is escalated only when the Sentinel predicate is true:
\* for a request that is not flagged no trace is built, no POST is sent to
\* the judgment service, and the only call is the upstream GET.
C10_NoEscalationUnlessSuspicious ==
    \A h \in Handlers :
        (handler[h] = "proxy_handler" /\ ~suspicious[h])
        => /\ ~brain[h].some
           /\ calls[h] = << GetCall(req[h].v) >>
           /\ \A i \in 1..Len(calls[h]) :
                ~calls[h][i].json.some /\ calls[h][i].url # AppState.brain_url
           /\ log[h] = <<>>
           /\ pc[h] \in {"await_upstream", "done"}

C10_Witness ==
    \E h \in Handlers :
        /\ pc[h] = "done" /\ handler[h] = "proxy_handler" /\ ~suspicious[h]
        /\ req[h].v.uri = OriginForm(<<"/","a","d">>, Some(<<"m","i","n">>))
        /\ calls[h] = << GetCall(req[h].v) >>
        /\ upstream[h].v.ok /\ resp[h].v.status = 200

\* the number of POSTs to the judgment service among the calls of h
PostCount(h) ==
    Cardinality({ i \in DOMAIN calls[h] :
                    calls[h][i].method = s_POST /\ calls[h][i].url = brain_url })

\* C11: no retries: a suspicious request causes exactly one POST to the
\* judgment service, whether the attempt succeeds, fails at transport
\* level or returns an unparseable body; the POST is the first call and is
\* never repeated before the handler fails open.
C11_SinglePostPerSuspiciousRequest ==
    \A h \in Handlers :
        (handler[h] = "proxy_handler" /\ suspicious[h])
        => /\ PostCount(h) = 1
           /\ calls[h][1].method = s_POST
           /\ Len(calls[h]) <= 2

C11_Witness ==
    \E h \in Handlers :
        /\ pc[h] = "done" /\ suspicious[h]
        /\ brain[h].some /\ ~brain[h].v.ok
        /\ upstream[h].some
        /\ PostCount(h) = 1

\* invocation h has issued its upstream call
Forwarded(h) ==
    handler[h] = "proxy_handler" /\ (pc[h] = "await_upstream" \/ upstream[h].some)

\* the calls of h that do not go to the judgment service
UpstreamCalls(h) == { i \in DOMAIN calls[h] : calls[h][i].url # brain_url }

\* <upstream base><path>, then "?" and the query when the query is not empty
ExpectedTarget(u) ==
    upstream_url \o u.path
    \o (IF u.query.some /\ u.query.v # <<>> THEN <<"?">> \o u.query.v ELSE <<>>)

\* C12: whenever a request is forwarded, the single upstream call is a
\* GET with no body to <upstream base><path>[?<query>], whatever the
\* method and body of the inbound request.
C12_ForwardIsBodilessGet ==
    \A h \in Handlers :
        Forwarded(h)
        => /\ UpstreamCalls(h) = { Len(calls[h]) }
           /\ calls[h][Len(calls[h])].method = s_GET
           /\ ~calls[h][Len(calls[h])].json.some
           /\ calls[h][Len(calls[h])].url = ExpectedTarget(req[h].v.uri)

C12_Witness ==
    \E h \in Handlers :
        /\ pc[h] = "done" /\ Forwarded(h)
        /\ req[h].v.method = s_POST /\ req[h].v.body = "x=1"
        /\ req[h].v.uri.query.some /\ req[h].v.uri.query.v # <<>>
        /\ calls[h][Len(calls[h])].method = s_GET
        /\ upstream[h].v.ok

\* the upstream call of h returned a response (send().await was Ok)
UpstreamAnswered(h) == pc[h] = "done" /\ upstream[h].some /\ upstream[h].v.ok

\* C13 (as stated): whenever the upstream call returns a response, the
\* client receives its status code and its raw body bytes unchanged.
\* (bytes is None when the body of that response could not be read.)
C13_RelayVerbatim ==
    \A h \in Handlers :
        UpstreamAnswered(h)
        => /\ resp[h].v.status = upstream[h].v.v.status
           /\ upstream[h].v.v.bytes.some
           /\ resp[h].v.body = upstream[h].v.v.bytes.v

\* C13 (amended): whenever the upstream call returns a response, the
\* client receives its status code unchanged, and its raw body bytes
\* unchanged when the body can be read to the end; when reading the body
\* fails, the client receives that status with an empty body.
C13_RelayVerbatimOrEmpty ==
    \A h \in Handlers :
        UpstreamAnswered(h)
        => /\ resp[h].v.status = upstream[h].v.v.status
           /\ upstream[h].v.v.bytes.some => resp[h].v.body = upstream[h].v.v.bytes.v
           /\ ~upstream[h].v.v.bytes.some => resp[h].v.body = ""

C13_Witness ==
    \E h \in Handlers :
        /\ UpstreamAnswered(h)
        /\ ~upstream[h].v.v.bytes.some
        /\ upstream[h].v.v.status = 403
        /\ resp[h].v.status = 403 /\ resp[h].v.body = ""

\* C14: whenever the upstream call of a forwarded request fails at
\* transport level, the client receives 502 with a plain-text body that
\* embeds the failure description, for requests that were not suspicious
\* and for suspicious ones that fell through to forwarding alike.
C14_UpstreamFailureIs502 ==
    \A h \in Handlers :
        (pc[h] = "done" /\ upstream[h].some /\ ~upstream[h].v.ok)
        => /\ resp[h].v.status = 502
           /\ resp[h].v.body = "Upstream Error: " \o upstream[h].v.err

C14_Witness ==
    \E h \in Handlers :
        /\ pc[h] = "done" /\ suspicious[h]
        /\ brain[h].some /\ ~brain[h].v.ok
        /\ upstream[h].some /\ ~upstream[h].v.ok
        /\ resp[h].v.status = 502

\* C15: every request accepted by proxy_handler eventually receives a
\* response, even when the judgment service or the upstream service
\* accepts the connection and never answers.
C15_EveryProxiedRequestAnswered ==
    \A h \in Handlers :
        (handler[h] = "proxy_handler") ~> (pc[h] = "done" /\ resp[h].some)

\* the request h serves is addressed to /trap
ToTrap(h) == req[h].some /\ UriPath(req[h].v.uri) = s_trap

\* the payload with the fields error, debug_trace and suggestion, as
\* serde_json writes it
FixedDecoyPayload ==
    "{\"debug_trace\":\"SELECT * FROM users WHERE admin = 1 failed.\","
    \o "\"error\":\"Fatal DB Error\","
    \o "\"suggestion\":\"Please contact sysadmin.\"}"

\* C16: every request to /trap, with any method, headers, query or body,
\* gets 200 with the same fixed JSON payload, a record holding the
\* request's full header set has been emitted when the response exists,
\* and the request is never triaged, escalated or forwarded.
C16_TrapAlwaysDecoy ==
    \A h \in Handlers :
        ToTrap(h)
        => /\ handler[h] = "honeypot_handler"
           /\ resp[h].some
           /\ resp[h].v.status = 200
           /\ resp[h].v.body = FixedDecoyPayload
           /\ \E i \in DOMAIN log[h] : log[h][i].arg = req[h].v.headers
                                         /\ log[h][i].level = "warn"
           /\ ~suspicious[h]
           /\ calls[h] = <<>>
           /\ ~brain[h].some /\ ~upstream[h].some

C16_Witness ==
    \E h \in Handlers :
        /\ ToTrap(h) /\ pc[h] = "done"
        /\ req[h].v.method = s_POST
        /\ req[h].v.uri.query.some /\ Contains(req[h].v.uri.query.v, s_admin)
        /\ req[h].v.headers # {}
        /\ req[h].v.body # ""
        /\ resp[h].v.status = 200

\* j is a JSON object with a string action and a redirect_target that is
\* a string, null or absent
CommandShaped(j) ==
    /\ j.t = "obj"
    /\ "action" \in DOMAIN j.o /\ j.o["action"].t = "str"
    /\ "redirect_target" \in DOMAIN j.o => j.o["redirect_target"].t \in {"str", "null"}

\* C17: serializing a Command whose redirect_target is None and parsing
\* the result back yields a Command with redirect_target absent and the
\* same action; parsing a Command succeeds both when redirect_target is
\* present and when it is absent.
C17_CommandRoundTrip ==
    serde.stage = "parsed"
    => /\ (serde.from = "serialized" /\ ~serde.cmd.v.redirect_target.some)
          => /\ serde.result.ok
             /\ ~serde.result.v.redirect_target.some
             /\ serde.result.v.action = serde.cmd.v.action
       /\ CommandShaped(serde.json)
          => /\ serde.result.ok
             /\ serde.result.v.action = serde.json.o["action"].s
             /\ serde.result.v.redirect_target.some
                <=> ("redirect_target" \in DOMAIN serde.json.o
                     /\ serde.json.o["redirect_target"].t = "str")

C17_Witness ==
    /\ serde.stage = "parsed"
    /\ serde.from = "serialized"
    /\ ~serde.cmd.v.redirect_target.some
    /\ serde.cmd.v.action = "DECEIVE"
    /\ serde.result.ok
    /\ serde.result.v = serde.cmd.v

\* the response determined by what h's own request, own escalation and
\* own upstream call have produced so far
OwnResponse(h) ==
    IF ~req[h].some THEN None
    ELSE IF Route(UriPath(req[h].v.uri)) = "honeypot_handler" THEN Some(DecoyResponse)
    ELSE IF Route(UriPath(req[h].v.uri)) = "fallback" THEN Some(FallbackResponse)
    ELSE IF brain[h].some /\ EscalationDisposition(brain[h].v) = "Block"
         THEN Some(BlockResponse)
    ELSE IF brain[h].some /\ EscalationDisposition(brain[h].v) = "Redirect"
         THEN Some(RedirectResponse)
    ELSE IF upstream[h].some THEN Some(RelayResponse(upstream[h].v))
    ELSE None

\* C18: under any interleaving of concurrently handled requests the shared
\* state (brain_url, upstream_url) is never modified after startup, and
\* each request's response is determined by its own method/path/query,
\* its own escalation outcome and its own upstream outcome alone.
C18_HandlersIndependent ==
    /\ state = AppState
    /\ \A h \in Handlers :
        /\ resp[h] = OwnResponse(h)
        /\ handler[h] = (IF req[h].some THEN Route(UriPath(req[h].v.uri)) ELSE "none")
        /\ suspicious[h] = (/\ req[h].some
                            /\ handler[h] = "proxy_handler"
                            /\ is_suspicious(UriToString(req[h].v.uri)))
        /\ \A i \in DOMAIN calls[h] :
              calls[h][i].url \in { state.brain_url, TargetUrl(req[h].v.uri) }

C18_Witness ==
    \E h \in Handlers : \E g \in Handlers \ {h} :
        /\ pc[h] = "done" /\ pc[g] = "done"
        /\ req[h].v.uri = req[g].v.uri
        /\ suspicious[h]
        /\ resp[h].v.status = 403
        /\ resp[g].v.status = 502

\* the escalation POST of h has completed: with a reply (a verdict or an
\* unparseable body) or with a transport error
EscalationCompleted(h) == brain[h].some

\* C19: for a suspicious request the upstream GET is issued only after the
\* escalation POST has completed, and a request answered with the
\* handler's 403 (BLOCK) or 307 (DECEIVE) never causes any call to the
\* upstream service.
C19_UpstreamAfterEscalation ==
    \A h \in Handlers :
        (handler[h] = "proxy_handler" /\ suspicious[h])
        => /\ UpstreamCalls(h) # {}
              => /\ EscalationCompleted(h)
                 /\ calls[h][1].url = brain_url
                 /\ UpstreamCalls(h) = {2}
           /\ (pc[h] = "await_upstream" \/ upstream[h].some) => UpstreamCalls(h) # {}
           /\ (VerdictReceived(h) /\ VerdictAction(h) \in {"BLOCK", "DECEIVE"})
              => /\ UpstreamCalls(h) = {}
                 /\ ~upstream[h].some
                 /\ pc[h] = "done"
                 /\ resp[h].v.status = (IF VerdictAction(h) = "BLOCK" THEN 403 ELSE 307)

C19_Witness ==
    \E h \in Handlers :
        /\ suspicious[h] /\ pc[h] = "await_upstream"
        /\ EscalationCompleted(h) /\ brain[h].v.ok
        /\ ~WellFormedVerdict(brain[h].v.v.body)
        /\ UpstreamCalls(h) = {2}

\* the response of h was produced by proxy_handler itself, not relayed
OwnDenial(h) ==
    handler[h] = "proxy_handler" /\ resp[h].some /\ ~upstream[h].some

\* C20: proxy_handler returns its own 403 only if the request was flagged
\* suspicious, the escalation POST succeeded, the body parsed into a
\* verdict and command.action is exactly "BLOCK", and its own 307 only
\* under the same conditions with action exactly "DECEIVE"; in every other
\* case the response is what the Forwarder produces.
C20_NoDenialWithoutVerdict ==
    \A h \in Handlers :
        (handler[h] = "proxy_handler" /\ resp[h].some)
        => IF OwnDenial(h)
           THEN /\ suspicious[h]
                /\ VerdictReceived(h)
                /\ \/ resp[h].v = BlockResponse /\ VerdictAction(h) = "BLOCK"
                   \/ resp[h].v = RedirectResponse /\ VerdictAction(h) = "DECEIVE"
           ELSE /\ resp[h].v = RelayResponse(upstream[h].v)
                /\ ~(VerdictReceived(h) /\ VerdictAction(h) \in {"BLOCK", "DECEIVE"})

\* an upstream's own 403 reaches the client as a relayed response
C20_RelayedUpstream403 ==
    \E h \in Handlers :
        /\ handler[h] = "proxy_handler" /\ pc[h] = "done"
        /\ suspicious[h] /\ VerdictReceived(h)
        /\ VerdictAction(h) = "block"
        /\ upstream[h].some /\ upstream[h].v.ok
        /\ upstream[h].v.v.status = 403
        /\ resp[h].v = RelayResponse(upstream[h].v)

C20_OwnDenialWitness ==
    \E h \in Handlers :
        /\ OwnDenial(h) /\ resp[h].v = RedirectResponse
        /\ VerdictAction(h) = "DECEIVE"
        /\ req[h].v.method = s_DELETE

====
